---- MODULE Spec2Model ----
(***************************************************************************)
(* A model of the squashfs data-block reader (DataReader, DataBlock), of   *)
(* File.ReadDir and of File.realExtract.                                   *)
(*                                                                         *)
(* Four specifications share the module, one per part of the program:      *)
(*   DecodeSpec   NewDataBlockSize applied to packed 32-bit size fields    *)
(*   Spec         NewDataReader and DataReader.Read over a block list      *)
(*   DirSpec      File.ReadDir paging over a directory's entries           *)
(*   ExtractSpec  File.realExtract of a directory, one goroutine per child *)
(* Each specification holds the variables of the other parts constant.     *)
(***************************************************************************)
EXTENDS Integers, Sequences, FiniteSets, TLC

VARIABLES
    dbs,    \* DecodeSpec: the last packed value decoded and the DataBlock made of it
    env,    \* Spec: the inputs of NewDataReader (sizes, base offset, image, codec, BlockSize)
    dr,     \* Spec: the DataReader (offset, blocks, curBlock, curData, curReadOffset)
    rd,     \* Spec: the Read call in progress (its buffer p and the locals read, curRead)
    ret,    \* Spec: what the last Read call returned
    pos,    \* Spec: number of bytes the Read calls have returned so far
    ev,     \* Spec: the readCurBlock calls of the last step, in call order
    dir,    \* DirSpec: a directory File (its entries, dirsRead) and the last ReadDir result
    ex      \* ExtractSpec: one realExtract call on a directory and its child goroutines

vars == <<dbs, env, dr, rd, ret, pos, ev, dir, ex>>

Min(a, b) == IF a < b THEN a ELSE b

None == "none"

Nil == "nil"

(***************************************************************************)
(* uint32 values. TLC's integers are 32-bit signed, so a uint32 is kept as *)
(* its two 16-bit halves; every operation below is exact modulo 2^32.      *)
(***************************************************************************)
Half == 2^16

U32(h, l) == [hi |-> h, lo |-> l]

Zero32 == U32(0, 0)

One32 == U32(0, 1)

FromInt(n) == U32(n \div Half, n % Half)

\* Defined for values below 2^31 only (the sizes the reader is given here).
ToInt(x) == x.hi * Half + x.lo

\* x & 1
And1(x) == U32(0, x.lo % 2)

\* x &^ 1
AndNot1(x) == U32(x.hi, x.lo - (x.lo % 2))

\* (x << k) modulo 2^32, for 0 <= k < 32
Shl(x, k) ==
    IF k >= 16
    THEN U32((x.lo % 2^(32 - k)) * 2^(k - 16), 0)
    ELSE U32((x.hi % 2^(16 - k)) * 2^k + (x.lo \div 2^(16 - k)), (x.lo % 2^(16 - k)) * 2^k)

\* The shift count of the source's expressions raw&1<<24 and raw&^1<<24.
FlagShift == 24

(***************************************************************************)
(* NewDataBlockSize. In Go & , &^ and << have the same precedence and      *)
(* associate to the left, and != binds weaker:                             *)
(*     raw&1<<24 != 1<<24   is   ((raw & 1) << 24) != (1 << 24)            *)
(*     raw &^ 1 << 24       is   (raw &^ 1) << 24                          *)
(***************************************************************************)
NewDataBlockSize(raw) ==
    LET compressed == Shl(And1(raw), FlagShift) # Shl(One32, FlagShift)
        size       == Shl(AndNot1(raw), FlagShift)
    IN  [begOffset        |-> 0,
         size             |-> size,
         compressed       |-> compressed,
         uncompressedSize |-> IF ~compressed THEN size ELSE Zero32]

(***************************************************************************)
(* DecodeSpec: NewDataBlockSize applied to packed values.                  *)
(***************************************************************************)
MaxRawLow == 15

\* Bit 24 (the source's 1<<24) and bit 31 (the most-significant bit) are bits 8 and
\* 15 of the high half.
RawHighs == {0, 1, 2^8, 2^8 + 1, 2^15, 2^15 + 2^8, Half - 1}

RawLows == (0..MaxRawLow) \cup {254, 255, 256, Half - 2, Half - 1}

RawValues == {U32(h, l) : h \in RawHighs, l \in RawLows}

NoDecode == [raw |-> None]

DecodeBlockSize ==
    /\ \E raw \in RawValues : dbs' = [raw |-> raw, blk |-> NewDataBlockSize(raw)]
    /\ UNCHANGED <<env, dr, rd, ret, pos, ev, dir, ex>>

(***************************************************************************)
(* DecodeSpec: what the packed size field is said to decode to. The flag   *)
(* is taken as the claims state it, the most-significant bit (bit 31).     *)
(***************************************************************************)
Decoded == dbs # NoDecode

MsbSet(raw) == raw.hi >= 2^15

ClearMsb(raw) == U32(raw.hi % 2^15, raw.lo)

\* C2: a packed value with the flag bit set decodes to compressed = false, and the
\* same value with the bit cleared to compressed = true, whatever the other bits.
C2_FlagDecoding ==
    Decoded => (dbs.blk.compressed <=> ~MsbSet(dbs.raw))

\* C3: the decoded on-disk size is the packed value with only the flag bit
\* cleared, and an uncompressed block's uncompressedSize is that size.
C3_SizeDecoding ==
    Decoded =>
        /\ dbs.blk.size = ClearMsb(dbs.raw)
        /\ ~dbs.blk.compressed => dbs.blk.uncompressedSize = ClearMsb(dbs.raw)

(***************************************************************************)
(* Spec: the sequential reader.                                            *)
(*                                                                         *)
(* The image is a byte sequence; reading a section past its end yields the *)
(* bytes there are (io.Copy over an io.SectionReader ends at EOF without   *)
(* an error). The decompressor is an opaque deterministic function of the  *)
(* section's bytes: env.codec gives, per section content, the length of    *)
(* the output, or -1 when decoding fails.                                  *)
(***************************************************************************)
MaxBlocks == 2

MaxBlockSize == 2

MaxImage == 2

MaxData == 2

MaxRead == 3

\* A failed advance re-reads the previous block and moves the image offset on each
\* time, without end; new Read calls stop once the offset is this many sections
\* (of 2^25 bytes, the least non-zero size) past the base offset.
MaxSections == 4

SectionUnit == 2^(FlagShift + 1)

\* Low halves of the packed sizes given to NewDataReader: 0 and 1 decode to a size
\* of 0 (sparse), 2 to a compressed and 3 to an uncompressed block of 2^25 bytes.
ReaderRaws == {U32(0, l) : l \in 0..3}

BaseOffsets == {0, 1}

RECURSIVE SeqsUpTo(_, _)
SeqsUpTo(S, n) ==
    IF n = 0 THEN {<<>>}
    ELSE LET shorter == SeqsUpTo(S, n - 1)
         IN  shorter \cup {Append(s, x) : s \in {t \in shorter : Len(t) = n - 1}, x \in S}

\* Image byte i (1-based) has value i: all image bytes differ.
ImageOf(len) == [i \in 1..len |-> i]

\* io.NewSectionReader(d.r.r, off, size) read to its end.
SectionBytes(image, off, size) ==
    SubSeq(image, off + 1, Min(off + size, Len(image)))

\* The bytes Decompress yields for section content s when it yields n bytes; they
\* differ from the image's bytes, from zero, and between section contents.
DecData(s, n) == [i \in 1..n |-> 10 * (Len(s) + 1) + i]

Zeros(n) == [i \in 1..n |-> 0]

\* d.r.decompressor.Decompress(sec)
Decompress(e, s) ==
    IF e.codec[s] < 0 THEN [err |-> "decode", data |-> <<>>]
    ELSE [err |-> Nil, data |-> DecData(s, e.codec[s])]

\* The section contents a reader over env can meet: blocks are 0 or at least 2^25
\* bytes on disk, so a section starts at the base offset or past the image's end.
Sections(image, base) == {SubSeq(image, base + 1, Len(image)), <<>>}

ReaderEnvs ==
    UNION {{[sizes |-> sz, base |-> b, image |-> ImageOf(n), codec |-> c, BlockSize |-> bs] :
                sz \in SeqsUpTo(ReaderRaws, MaxBlocks),
                c \in [Sections(ImageOf(n), b) -> -1..MaxData],
                bs \in 1..MaxBlockSize} :
           b \in BaseOffsets, n \in 0..MaxImage}

\* One readCurBlock call, as the step's log keeps it.
Event(d0, d1, err, reads) ==
    [blk |-> d0.curBlock, err |-> err, reads |-> reads,
     offBefore |-> d0.offset, offAfter |-> d1.offset, data |-> d1.curData,
     desc |-> IF d0.curBlock < Len(d1.blocks) THEN d1.blocks[d0.curBlock + 1] ELSE None]

\* readCurBlock, lines 71-76, with the offset moved on as for a stored block.
sparseBlockAdvancing(e, d) ==
    [d EXCEPT !.curData = Zeros(e.BlockSize),
              !.blocks[d.curBlock + 1].uncompressedSize = FromInt(e.BlockSize),
              !.blocks[d.curBlock + 1].begOffset = d.offset,
              !.offset = d.offset + e.BlockSize]

\* readCurBlock, lines 71-76: a block of on-disk size 0.
sparseBlock(e, d) ==
    [d EXCEPT !.curData = Zeros(e.BlockSize),
              !.blocks[d.curBlock + 1].uncompressedSize = FromInt(e.BlockSize),
              !.blocks[d.curBlock + 1].begOffset = d.offset]

\* d.readCurBlock(): the reader after the call, the error, and the call's log entry.
readCurBlock(e, d) ==
    IF d.curBlock >= Len(d.blocks)
    THEN [d |-> d, err |-> "EOF", ev |-> <<Event(d, d, "EOF", 0)>>]
    ELSE
      LET k == d.curBlock + 1
          b == d.blocks[k]
      IN  IF b.size = Zero32
          THEN LET d1 == sparseBlock(e, d)
               IN  [d |-> d1, err |-> Nil, ev |-> <<Event(d, d1, Nil, 0)>>]
          ELSE
            LET sec == SectionBytes(e.image, d.offset, ToInt(b.size))
            IN  IF b.compressed
                THEN LET dec == Decompress(e, sec)
                         d1  == [d EXCEPT !.blocks[k].uncompressedSize = FromInt(Len(dec.data)),
                                          !.curData = dec.data,
                                          !.blocks[k].begOffset = d.offset,
                                          !.offset = d.offset + ToInt(b.size)]
                     IN  IF dec.err # Nil
                         THEN [d |-> d, err |-> dec.err, ev |-> <<Event(d, d, dec.err, 1)>>]
                         ELSE [d |-> d1, err |-> Nil, ev |-> <<Event(d, d1, Nil, 1)>>]
                ELSE LET d1 == [d EXCEPT !.curData = sec,
                                         !.blocks[k].begOffset = d.offset,
                                         !.offset = d.offset + ToInt(b.size)]
                     IN  [d |-> d1, err |-> Nil, ev |-> <<Event(d, d1, Nil, 1)>>]

\* d.readNextBlock()
readNextBlock(e, d) ==
    LET d1 == [d EXCEPT !.curBlock = @ + 1]
    IN  IF d1.curBlock >= Len(d1.blocks)
        THEN [d |-> d, err |-> "Ran out of blocks", ev |-> <<>>]
        ELSE LET r == readCurBlock(e, d1)
             IN  IF r.err # Nil
                 THEN LET r2 == readCurBlock(e, [r.d EXCEPT !.curBlock = @ - 1])
                      IN  [d |-> r2.d, err |-> r.err, ev |-> r.ev \o r2.ev]
                 ELSE r

\* The blocks NewDataReader appends, one per packed size.
DecodeSizes(sizes) == [i \in 1..Len(sizes) |-> NewDataBlockSize(sizes[i])]

\* No reader yet, and the nil reader NewDataReader returns with an error.
NoReader == [state |-> "new"]

FailedReader == [state |-> "failed"]

NoReturn == [req |-> -1]

\* Reader.NewDataReader(offset, sizes): block 0 is materialized at once.
NewDataReader ==
    /\ dr = NoReader
    /\ LET d0 == [offset |-> env.base, blocks |-> DecodeSizes(env.sizes),
                  curBlock |-> 0, curData |-> <<>>, curReadOffset |-> 0]
           r  == readCurBlock(env, d0)
       IN  /\ dr' = IF r.err # Nil THEN FailedReader ELSE r.d
           /\ ev' = r.ev
    /\ UNCHANGED <<dbs, env, rd, ret, pos, dir, ex>>

Constructed == dr \notin {NoReader, FailedReader}

Idle == [pc |-> "idle"]

\* The caller's buffer before the call: -1 marks a byte Read has not written.
Blank(n) == [i \in 1..n |-> -1]

\* What a Read call hands back: (n, err), with the buffer and where the call began.
Return(req, n, err, p) == [req |-> req, n |-> n, err |-> err, p |-> p, pos0 |-> pos]

\* Read, lines 101-107, taking also the request that ends where the cached block
\* does.
ReadFastInclusive ==
    /\ Constructed /\ rd = Idle
    /\ \E n \in 0..MaxRead :
        /\ dr.curReadOffset + n <= Len(dr.curData)
        /\ dr' = [dr EXCEPT !.curReadOffset = @ + n]
        /\ ret' = Return(n, n, Nil, [i \in 1..n |-> dr.curData[dr.curReadOffset + i]])
        /\ pos' = pos + n
    /\ ev' = <<>>
    /\ UNCHANGED <<dbs, env, rd, dir, ex>>

\* Read, lines 101-107: the request ends before the cached block does.
ReadFast ==
    /\ Constructed /\ rd = Idle
    /\ \E n \in 0..MaxRead :
        /\ dr.curReadOffset + n < Len(dr.curData)
        /\ dr' = [dr EXCEPT !.curReadOffset = @ + n]
        /\ ret' = Return(n, n, Nil, [i \in 1..n |-> dr.curData[dr.curReadOffset + i]])
        /\ pos' = pos + n
    /\ ev' = <<>>
    /\ UNCHANGED <<dbs, env, rd, dir, ex>>

\* Read, lines 108-110 and 127-130: the locals of the copy loop; a request of no
\* bytes skips the loop and returns.
ReadSlow ==
    /\ Constructed /\ rd = Idle
    /\ dr.offset < env.base + MaxSections * SectionUnit
    /\ \E n \in 0..MaxRead :
        /\ ~(dr.curReadOffset + n < Len(dr.curData))
        /\ IF n = 0
           THEN /\ ret' = Return(0, 0, Nil, <<>>)
                /\ rd' = rd
           ELSE /\ rd' = [pc |-> "loop", p |-> Blank(n), read |-> 0, curRead |-> 0]
                /\ ret' = NoReturn
    /\ ev' = <<>>
    /\ UNCHANGED <<dbs, env, dr, pos, dir, ex>>

\* Read, lines 118-125: the inner for loop, from its condition.
RECURSIVE CopyLoop(_, _, _, _)
CopyLoop(d, p, read, curRead) ==
    IF ~(read < Len(p)) THEN [p |-> p, read |-> read, curRead |-> curRead]
    ELSE LET c == curRead + 1
         IN  IF d.curReadOffset + c < Len(d.curData)
             THEN CopyLoop(d, [p EXCEPT ![read + 1] = d.curData[d.curReadOffset + c + 1]],
                           read + 1, c)
             ELSE [p |-> p, read |-> read, curRead |-> c]

\* curRead only ever grows while the loop spins; every value from len(curData) on
\* makes the same test fail, so the model keeps the least of them.
Saturate(d, curRead) == Min(curRead, Len(d.curData) + 1)

\* Read, lines 110-126: one pass of the outer loop, then the return when the
\* buffer is full (lines 127-130; read never exceeds len(p)).
ReadLoop ==
    /\ Constructed /\ rd.pc = "loop" /\ rd.read < Len(rd.p)
    /\ LET atEnd == dr.curReadOffset = Len(dr.curData)
           nb    == IF atEnd THEN readNextBlock(env, dr) ELSE [d |-> dr, err |-> Nil, ev |-> <<>>]
           cr    == IF atEnd THEN 0 ELSE rd.curRead
           c     == CopyLoop(nb.d, rd.p, rd.read, cr)
       IN  /\ dr' = nb.d
           /\ ev' = nb.ev
           /\ IF nb.err # Nil
              THEN /\ ret' = Return(Len(rd.p), rd.read, nb.err, rd.p)
                   /\ pos' = pos + rd.read
                   /\ rd' = Idle
              ELSE IF c.read = Len(rd.p)
              THEN /\ ret' = Return(Len(rd.p), c.read, Nil, c.p)
                   /\ pos' = pos + c.read
                   /\ rd' = Idle
              ELSE /\ rd' = [rd EXCEPT !.p = c.p, !.read = c.read,
                                       !.curRead = Saturate(nb.d, c.curRead)]
                   /\ UNCHANGED <<ret, pos>>
    /\ UNCHANGED <<dbs, env, dir, ex>>

(***************************************************************************)
(* The file's logical content, from the inputs alone: block k lies at the  *)
(* base offset plus the on-disk sizes of the blocks before it.             *)
(***************************************************************************)
RECURSIVE SumSizes(_, _)
SumSizes(blocks, k) ==
    IF k = 0 THEN 0 ELSE SumSizes(blocks, k - 1) + ToInt(blocks[k].size)

\* Block k (1-based) of env: its section of the image, and its decoded content.
BlockSection(e, k) ==
    LET blocks == DecodeSizes(e.sizes)
    IN  SectionBytes(e.image, e.base + SumSizes(blocks, k - 1), ToInt(blocks[k].size))

BlockDecodes(e, k) ==
    LET b == DecodeSizes(e.sizes)[k]
    IN  b.size = Zero32 \/ ~b.compressed \/ Decompress(e, BlockSection(e, k)).err = Nil

BlockContent(e, k) ==
    LET b == DecodeSizes(e.sizes)[k]
    IN  IF b.size = Zero32 THEN Zeros(e.BlockSize)
        ELSE IF b.compressed THEN Decompress(e, BlockSection(e, k)).data
        ELSE BlockSection(e, k)

AllDecodable == \A k \in 1..Len(env.sizes) : BlockDecodes(env, k)

RECURSIVE ConcatBlocks(_, _)
ConcatBlocks(e, k) ==
    IF k = 0 THEN <<>> ELSE ConcatBlocks(e, k - 1) \o BlockContent(e, k)

Logical == ConcatBlocks(env, Len(env.sizes))

\* The copy loop of the Read call in progress can change nothing any more: the
\* call never returns.
Spinning == rd.pc = "loop" /\ ~ENABLED <<ReadLoop>>_vars

Returned == ret # NoReturn

\* C1: chunking-invariance. A Read call that asks for no more than is left of the
\* file returns exactly the requested bytes, the ones that follow the bytes
\* returned before, with no error; and it does return.
C1_ChunkingInvariance ==
    AllDecodable =>
        /\ (Returned /\ ret.pos0 + ret.req <= Len(Logical)) =>
                /\ ret.err = Nil
                /\ ret.n = ret.req
                /\ ret.p = SubSeq(Logical, ret.pos0 + 1, ret.pos0 + ret.req)
        /\ (rd.pc = "loop" /\ pos + Len(rd.p) <= Len(Logical)) => ~Spinning

\* C5: a Read call that asks for more than is left of the file returns, with the
\* end-of-blocks error and the count and bytes of what was left.
C5_ReadPastEnd ==
    AllDecodable =>
        /\ (Returned /\ ret.pos0 + ret.req > Len(Logical)) =>
                /\ ret.err = "Ran out of blocks"
                /\ ret.n = Len(Logical) - ret.pos0
                /\ ret.n <= ret.req
                /\ SubSeq(ret.p, 1, ret.n) = SubSeq(Logical, ret.pos0 + 1, Len(Logical))
        /\ (rd.pc = "loop" /\ pos + Len(rd.p) > Len(Logical)) => ~Spinning

\* C6: every readCurBlock call on a block of on-disk size 0 succeeds, caches
\* BlockSize zero bytes, records BlockSize as the uncompressed size, reads no
\* section of the image and leaves the image offset where it was (which it records
\* as the block's offset), so that the next block is read from that same offset.
C6_SparseMaterialization ==
    /\ \A i \in 1..Len(ev) :
          LET e == ev[i]
          IN  (e.blk < Len(env.sizes) /\ DecodeSizes(env.sizes)[e.blk + 1].size = Zero32) =>
                /\ e.err = Nil
                /\ e.data = Zeros(env.BlockSize)
                /\ e.desc.uncompressedSize = FromInt(env.BlockSize)
                /\ e.reads = 0
                /\ e.offAfter = e.offBefore
                /\ e.desc.begOffset = e.offBefore
    /\ (Constructed /\ dr.blocks[dr.curBlock + 1].size = Zero32) =>
          /\ dr.curData = Zeros(env.BlockSize)
          /\ dr.offset = dr.blocks[dr.curBlock + 1].begOffset

\* A sparse block after block 0 has been materialized by an advance.
C6_Witness ==
    \E i \in 1..Len(ev) :
        /\ ev[i].blk >= 1 /\ ev[i].err = Nil
        /\ DecodeSizes(env.sizes)[ev[i].blk + 1].size = Zero32

\* C14: every Read call terminates: a call that has entered its copy loop leaves it
\* and returns.
C14_ReadTerminates == (rd.pc = "loop") ~> (rd.pc = "idle")

\* The last Read call failed because the block after the current one could not be
\* read or decoded.
AdvanceFailed == Returned /\ ret.err \notin {Nil, "Ran out of blocks"}

\* The image offset of block k (0-based) of env.
BlockOffset(e, k) == e.base + SumSizes(DecodeSizes(e.sizes), k)

\* C15: after a failed advance from block k to block k+1 the current block is k
\* again and the cached bytes are the content of block k, which the rollback has
\* read at block k's own image offset. The step's log holds the failed call on
\* block k+1 and then the rollback's call on block k.
C15_FailureRecovery ==
    AdvanceFailed =>
        LET k == ev[1].blk - 1
        IN  /\ dr.curBlock = k
            /\ dr.curData = BlockContent(env, k + 1)
            /\ Len(ev) = 2 /\ ev[2].blk = k /\ ev[2].offBefore = BlockOffset(env, k)

\* C16: no step of the reader changes the offset or the uncompressed size recorded
\* in the descriptor of a block that has been materialized (blocks 0..curBlock),
\* and the offset recorded for block k stays the base offset plus the on-disk
\* sizes of blocks 0..k-1.
C16_DescriptorsStable ==
    [][(Constructed /\ Constructed') =>
          \A k \in 1..(dr.curBlock + 1) :
              /\ dr'.blocks[k].begOffset = dr.blocks[k].begOffset
              /\ dr'.blocks[k].uncompressedSize = dr.blocks[k].uncompressedSize
              /\ dr'.blocks[k].begOffset = env.base + SumSizes(dr.blocks, k - 1)]_vars

\* C17: the read cursor lies within the cached block in every state.
C17_CursorWithinBlock ==
    Constructed => 0 <= dr.curReadOffset /\ dr.curReadOffset <= Len(dr.curData)

\* The cached block has just been replaced by the block that follows it.
C17_Witness ==
    /\ Constructed
    /\ \E i \in 1..Len(ev) : ev[i].blk >= 1 /\ ev[i].err = Nil /\ dr.curBlock = ev[i].blk

(***************************************************************************)
(* DirSpec: File.ReadDir on one File. The directory's entries are 1..m in  *)
(* order; the slice readDirectory returns may have spare capacity, whose   *)
(* elements are zero entries (0). rootLen is len(f.r.e), the number of     *)
(* entries the Reader itself holds (those of the archive's root).          *)
(***************************************************************************)
MaxEntries == 3

MaxSpare == 1

MaxN == 2

\* dirsRead has no upper limit in the code; calls stop once it passes this.
MaxCursor == 6

DirFiles ==
    [isDir : BOOLEAN, m : 0..MaxEntries, cap : 0..(MaxEntries + MaxSpare),
     rootLen : 0..MaxEntries, failAt : 0..MaxEntries]

NoCall == [n |-> 0, before |-> -1]

\* ents[start:end] of a slice of length m and capacity cap; Go panics unless
\* 0 <= start <= end <= cap.
SliceEntries(m, start, end) == [i \in 1..(end - start) |-> IF start + i <= m THEN start + i ELSE 0]

\* The for loop of lines 114-121 over the slice sl: newFileInfo fails on entry
\* failAt; the entries appended to out before that, and the error left in err.
RECURSIVE InfoLoop(_, _, _, _)
InfoLoop(sl, i, failAt, acc) ==
    IF i > Len(sl) THEN acc
    ELSE IF sl[i] = failAt /\ failAt > 0 THEN [acc EXCEPT !.err = "info", !.failed = TRUE]
    ELSE InfoLoop(sl, i + 1, failAt, [acc EXCEPT !.out = Append(@, sl[i]), !.err = Nil])

\* File.ReadDir(n)
ReadDir ==
    /\ dir.pc = "ready" /\ dir.dirsRead <= MaxCursor
    /\ \E n \in -1..MaxN :
        LET f     == dir.f
            start == IF n > 0 THEN dir.dirsRead ELSE 0
            end0  == IF n > 0 THEN dir.dirsRead + n ELSE f.m
            clip  == n > 0 /\ end0 > f.rootLen
            end   == IF clip THEN f.rootLen ELSE end0
            err0  == IF clip THEN "EOF" ELSE Nil
            call  == [n |-> n, before |-> dir.dirsRead]
        IN  IF ~f.isDir
            THEN dir' = [dir EXCEPT !.last = call @@ [out |-> <<>>, err |-> "file is not a directory"]]
            ELSE IF ~(0 <= start /\ start <= end /\ end <= f.cap)
            THEN dir' = [dir EXCEPT !.pc = "panic", !.last = call @@ [out |-> <<>>, err |-> "panic"],
                                    !.mixed = @ \/ n <= 0]
            ELSE LET r == InfoLoop(SliceEntries(f.m, start, end), 1, f.failAt,
                                   [out |-> <<>>, err |-> err0, failed |-> FALSE])
                 IN  dir' = [dir EXCEPT !.dirsRead = @ + Len(r.out),
                                        !.last = call @@ [out |-> r.out, err |-> r.err],
                                        !.mixed = @ \/ n <= 0]
    /\ UNCHANGED <<dbs, env, dr, rd, ret, pos, ev, ex>>

DirInit ==
    /\ \E f \in DirFiles :
        /\ f.cap >= f.m /\ f.cap <= f.m + MaxSpare
        \* f is the root itself, or the root holds at least the way to f
        /\ f.rootLen = f.m \/ f.rootLen >= 1
        /\ dir = [pc |-> "ready", f |-> f, dirsRead |-> 0, mixed |-> FALSE, last |-> NoCall]

\* The directory's own entry list.
Entries(f) == [i \in 1..f.m |-> i]

\* C7: while only calls with n > 0 have been made on a directory and no entry's
\* info fails to load, a call does not panic and returns the run of at most n
\* entries that follows those returned before; the call made after all m were
\* returned returns none and the end-of-listing error. This whatever rootLen is.
C7_ReadDirPaging ==
    (dir.last # NoCall /\ dir.f.isDir /\ dir.f.failAt = 0 /\ ~dir.mixed) =>
        /\ dir.last.err # "panic"
        /\ dir.last.out = SubSeq(Entries(dir.f), dir.last.before + 1,
                                 Min(dir.last.before + dir.last.n, dir.f.m))
        /\ dir.last.before = dir.f.m => dir.last.err = "EOF"

\* C19: the listing cursor never exceeds the number of the directory's entries,
\* whatever calls were made, and no call slices the entries out of range. Stated
\* for the directories that have as many entries as the Reader holds (the root),
\* for which the limit of line 108 is the directory's own length.
C19_CursorWithinEntries ==
    dir.f.rootLen = dir.f.m => (dir.dirsRead <= dir.f.m /\ dir.pc # "panic")

(***************************************************************************)
(* ExtractSpec: File.realExtract of a directory into the folder D.         *)
(*                                                                         *)
(* The target filesystem maps a path (a sequence of names) to what is at   *)
(* it: its kind, its permission bits, the archive node its bytes or link   *)
(* come from, and the tasks that created or wrote it (0 is the call        *)
(* itself, c the goroutine of child c). The archive is the directory's     *)
(* children; a child directory holds files only, so the fan-out of a       *)
(* nested realExtract call has no sub-directory of its own and its         *)
(* children are run one after the other.                                   *)
(***************************************************************************)
MaxChildren == 2

\* DefaultOptions' FolderPerm, 0755.
DefaultFolderPerm == 493

\* The permission bits of a directory inode that differ from FolderPerm (0700).
OtherDirMode == 7 * 64

D == <<"D">>

Node(id, name, kind, mode, kids, link, bad) ==
    [id |-> id, name |-> name, kind |-> kind, mode |-> mode, kids |-> kids,
     link |-> link, bad |-> bad]

NoNode == [id |-> None]

\* bad: "no", "lookup" (newFile fails for the entry) or "copy" (io.Copy fails).
FileNodes == {Node("a", "a", "Fil", 420, <<>>, <<>>, bad) : bad \in {"no", "lookup", "copy"}}

DirNodes ==
    {Node("d", "d", "Dir", mode, kids, <<>>, "no") :
        mode \in {DefaultFolderPerm, OtherDirMode},
        kids \in {<<>>, <<Node("d/a", "a", "Fil", 420, <<>>, <<>>, "no")>>}}

\* A link is a relative path, or absolute (its first element is "/").
SymNodes ==
    {Node("s", "s", "Sym", 511, <<>>, link, "no") :
        link \in {<<"a">>, <<"d">>, <<"d", "a">>, <<"/", "a">>}}

Rank(n) == CASE n.id = "a" -> 1 [] n.id = "d" -> 2 [] OTHER -> 3

\* The children of the extracted directory, in directory order (by name). Device
\* and FIFO entries are left out of the archives.
Archives ==
    {ch \in SeqsUpTo(FileNodes \cup DirNodes \cup SymNodes, MaxChildren) :
        \A i, j \in 1..Len(ch) : i < j => Rank(ch[i]) < Rank(ch[j])}

Options == [deref : BOOLEAN, unbreak : BOOLEAN, perm : {DefaultFolderPerm}]

\* f.parent.Open(path) for a relative path, among the entries kids: the node, or
\* NoNode when no such entry exists.
RECURSIVE Lookup(_, _)
Lookup(kids, path) ==
    LET hit == {i \in 1..Len(kids) : kids[i].name = path[1]}
    IN  IF path = <<>> \/ hit = {} THEN NoNode
        ELSE LET n == kids[CHOOSE i \in hit : TRUE]
             IN  IF Len(path) = 1 THEN n ELSE Lookup(n.kids, Tail(path))

\* File.GetSymlinkFile
GetSymlinkFile(n, sibs) ==
    IF n.kind # "Sym" THEN NoNode
    ELSE IF n.link[1] = "/" THEN NoNode
    ELSE Lookup(sibs, n.link)

Entry(kind, perm, from, t) == [kind |-> kind, perm |-> perm, from |-> from, writers |-> {t}]

Put(f, p, v) == [q \in DOMAIN f \cup {p} |-> IF q = p THEN v ELSE f[q]]

Parent(p) == SubSeq(p, 1, Len(p) - 1)

Below(f, p) == {q \in DOMAIN f : Len(q) > Len(p) /\ SubSeq(q, 1, Len(p)) = p}

\* os.MkdirAll(p, perm): nothing when p is a directory, an error when p is
\* something else, else the missing directories are created with perm.
RECURSIVE MkdirAll(_, _, _, _)
MkdirAll(f, p, perm, t) ==
    IF p = <<>> THEN [fs |-> f, err |-> Nil]
    ELSE IF p \in DOMAIN f
    THEN [fs |-> f, err |-> IF f[p].kind = "dir" THEN Nil ELSE "not a directory"]
    ELSE LET up == MkdirAll(f, Parent(p), perm, t)
         IN  IF up.err # Nil THEN up
             ELSE [fs |-> Put(up.fs, p, Entry("dir", perm, None, t)), err |-> Nil]

\* os.Mkdir(p, perm): fails when p exists.
Mkdir(f, p, perm, t) ==
    IF p \in DOMAIN f THEN [fs |-> f, err |-> "exists"]
    ELSE IF Parent(p) # <<>> /\ Parent(p) \notin DOMAIN f THEN [fs |-> f, err |-> "no parent"]
    ELSE [fs |-> Put(f, p, Entry("dir", perm, None, t)), err |-> Nil]

\* os.Create(p) and the copy into it: an existing file is truncated (os.Create
\* never fails with "exists"), a directory at p is an error.
Create(f, p, from, t) ==
    IF p \in DOMAIN f /\ f[p].kind = "dir" THEN [fs |-> f, err |-> "is a directory"]
    ELSE IF p \in DOMAIN f
    THEN [fs |-> Put(f, p, [Entry("file", 0, from, t) EXCEPT !.writers = @ \cup f[p].writers]),
          err |-> Nil]
    ELSE [fs |-> Put(f, p, Entry("file", 0, from, t)), err |-> Nil]

\* os.Symlink(target, p), after os.Remove(p) when p exists (lines 362-366);
\* os.Remove fails on a directory that is not empty.
Symlink(f, p, from, t) ==
    IF p \in DOMAIN f /\ f[p].kind = "dir" /\ Below(f, p) # {}
    THEN [fs |-> f, err |-> "exists"]
    ELSE IF p \in DOMAIN f
    THEN [fs |-> Put(f, p, [Entry("symlink", 0, from, t) EXCEPT !.writers = @ \cup f[p].writers]),
          err |-> Nil]
    ELSE [fs |-> Put(f, p, Entry("symlink", 0, from, t)), err |-> Nil]

\* filepath.Dir of a relative link
DirOf(link) == SubSeq(link, 1, Len(link) - 1)

RECURSIVE realExtract(_, _, _, _, _, _)
RECURSIVE extractKids(_, _, _, _, _, _, _)

\* The goroutines of lines 268-294 for the children kids[i..] of a nested
\* directory, one after the other; the call returns the first error.
extractKids(kids, i, folder, f, op, t, err) ==
    IF i > Len(kids) THEN [fs |-> f, err |-> err]
    ELSE LET k == kids[i]
             r == IF k.bad = "lookup" THEN [fs |-> f, err |-> "lookup"]
                  ELSE IF k.kind = "Dir"
                  THEN LET m == Mkdir(f, Append(folder, k.name), k.mode, t)
                       IN  IF m.err # Nil THEN m
                           ELSE realExtract(k, kids, Append(folder, k.name), m.fs, op, t)
                  ELSE realExtract(k, kids, folder, f, op, t)
         IN  extractKids(kids, i + 1, folder, r.fs, op, t, IF err # Nil THEN err ELSE r.err)

\* File.realExtract(folder, op) of node n, whose directory holds sibs, run by
\* task t to its end: the filesystem it leaves and the error it returns.
realExtract(n, sibs, folder, f, op, t) ==
    LET mk == MkdirAll(f, folder, op.perm, t)
        at == Append(folder, n.name)
    IN  IF mk.err # Nil THEN mk
        ELSE CASE n.kind = "Dir" -> extractKids(n.kids, 1, folder, mk.fs, op, t, Nil)
               [] n.kind = "Fil" ->
                    LET c == Create(mk.fs, at, n.id, t)
                    IN  IF c.err # Nil THEN c
                        ELSE [fs |-> c.fs, err |-> IF n.bad = "copy" THEN "copy" ELSE Nil]
               [] n.kind = "Sym" ->
                    LET fil == GetSymlinkFile(n, sibs)
                    IN  IF op.deref
                        THEN IF fil = NoNode THEN [fs |-> mk.fs, err |-> "cannot get symlink target"]
                             ELSE realExtract([fil EXCEPT !.name = n.name], <<>>, folder, mk.fs, op, t)
                        ELSE LET pre == IF ~op.unbreak THEN mk
                                        ELSE IF fil = NoNode
                                        THEN [fs |-> mk.fs, err |-> "cannot get symlink target"]
                                        ELSE realExtract(fil, <<>>, folder \o DirOf(n.link), mk.fs, op, t)
                             IN  IF pre.err # Nil THEN pre
                                 ELSE Symlink(pre.fs, at, n.id, t)
               [] OTHER -> [fs |-> mk.fs, err |-> "Unsupported file type"]

\* The target before the call: nothing, or the folder and the sub-directories an
\* earlier extraction of the same directory left there.
EmptyFS == [q \in {} |-> None]

EarlierFS(arch) ==
    [q \in {D} \cup {<<"D", arch[i].name>> : i \in {j \in 1..Len(arch) : arch[j].kind = "Dir"}} |->
        [kind |-> "dir", perm |-> DefaultFolderPerm, from |-> None, writers |-> {}]]

ExtractInit ==
    \E arch \in Archives, op \in Options, earlier \in BOOLEAN :
        ex = [arch |-> arch, op |-> op, earlier |-> earlier,
              fs |-> IF earlier THEN EarlierFS(arch) ELSE EmptyFS,
              pc |-> "call", i |-> 0, err |-> Nil, result |-> None, received |-> 0,
              ch |-> [c \in 1..Len(arch) |-> [pc |-> "unborn", val |-> Nil, own |-> Nil, mk |-> Nil, sent |-> 0]]]

\* realExtract on the directory, lines 248-268 and 408: the folder is made, the
\* children are read and one goroutine per child is launched; with no child the
\* receive loop is empty and the call returns nil.
ExtractCall ==
    /\ ex.pc = "call"
    /\ LET mk == MkdirAll(ex.fs, D, ex.op.perm, 0)
       IN  IF mk.err # Nil
           THEN ex' = [ex EXCEPT !.pc = "returned", !.result = mk.err, !.err = mk.err]
           ELSE ex' = [ex EXCEPT !.fs = mk.fs,
                                 !.ch = [c \in 1..Len(ex.arch) |-> [ex.ch[c] EXCEPT !.pc = "start"]],
                                 !.pc = IF Len(ex.arch) = 0 THEN "returned" ELSE "recv",
                                 !.result = IF Len(ex.arch) = 0 THEN Nil ELSE None]
    /\ UNCHANGED <<dbs, env, dr, rd, ret, pos, ev, dir>>

\* Line 270: f.r.newFile(ent, filFS); on an error goErr is what will be sent.
ChildNewFile(c) ==
    /\ ex.ch[c].pc = "start"
    /\ ex' = IF ex.arch[c].bad = "lookup"
             THEN [ex EXCEPT !.ch[c].pc = "send", !.ch[c].val = "lookup", !.ch[c].own = "lookup"]
             ELSE [ex EXCEPT !.ch[c].pc = IF ex.arch[c].kind = "Dir" THEN "mkdir" ELSE "extract"]
    /\ UNCHANGED <<dbs, env, dr, rd, ret, pos, ev, dir>>

\* Line 280: err = os.Mkdir(...), an assignment to the err of the enclosing call,
\* which every goroutine and the receive loop share.
ChildMkdir(c) ==
    /\ ex.ch[c].pc = "mkdir"
    /\ LET m == Mkdir(ex.fs, Append(D, ex.arch[c].name), ex.arch[c].mode, c)
       IN  ex' = [ex EXCEPT !.fs = m.fs, !.err = m.err, !.ch[c].pc = "test", !.ch[c].mk = m.err]
    /\ UNCHANGED <<dbs, env, dr, rd, ret, pos, ev, dir>>

\* Line 281: if err != nil, a read of the shared err.
ChildTestErr(c) ==
    /\ ex.ch[c].pc = "test"
    /\ ex' = [ex EXCEPT !.ch[c].pc = IF ex.err # Nil THEN "evalsend" ELSE "extract"]
    /\ UNCHANGED <<dbs, env, dr, rd, ret, pos, ev, dir>>

\* Line 285: the operand of errChan <- err, another read of the shared err.
ChildEvalSend(c) ==
    /\ ex.ch[c].pc = "evalsend"
    /\ ex' = [ex EXCEPT !.ch[c].pc = "send", !.ch[c].val = ex.err]
    /\ UNCHANGED <<dbs, env, dr, rd, ret, pos, ev, dir>>

\* Lines 288 and 290: the operand fil.realExtract(...) of the send, into the
\* child's own folder for a directory and into the folder itself otherwise.
ChildExtract(c) ==
    /\ ex.ch[c].pc = "extract"
    /\ LET n == ex.arch[c]
           r == realExtract(n, ex.arch, IF n.kind = "Dir" THEN Append(D, n.name) ELSE D,
                            ex.fs, ex.op, c)
       IN  ex' = [ex EXCEPT !.fs = r.fs, !.ch[c].pc = "send", !.ch[c].val = r.err,
                            !.ch[c].own = r.err]
    /\ UNCHANGED <<dbs, env, dr, rd, ret, pos, ev, dir>>

\* Line 296 with a send after which the sender is back at its send.
ReceiveResend(c) ==
    /\ ex.pc = "recv" /\ ex.ch[c].pc = "send"
    /\ ex' = [ex EXCEPT !.err = ex.ch[c].val, !.received = @ + 1, !.pc = "test",
                        !.ch[c].sent = @ + 1]
    /\ UNCHANGED <<dbs, env, dr, rd, ret, pos, ev, dir>>

\* Line 296 with a send of lines 275, 285, 288 or 290: errChan has no buffer, so
\* a send completes together with the receive err = <-errChan. The sender
\* then returns (after fil.Close() on the paths that reach it).
Receive(c) ==
    /\ ex.pc = "recv" /\ ex.ch[c].pc = "send"
    /\ ex' = [ex EXCEPT !.err = ex.ch[c].val, !.received = @ + 1, !.pc = "test",
                        !.ch[c].pc = "done", !.ch[c].sent = @ + 1]
    /\ UNCHANGED <<dbs, env, dr, rd, ret, pos, ev, dir>>

\* Lines 295-300 and 408 with a loop that ends after its first pass.
ReceiveTestOnce ==
    /\ ex.pc = "test"
    /\ ex' = IF ex.err # Nil
             THEN [ex EXCEPT !.pc = "returned", !.result = ex.err]
             ELSE [ex EXCEPT !.pc = "returned", !.result = Nil, !.i = @ + 1]
    /\ UNCHANGED <<dbs, env, dr, rd, ret, pos, ev, dir>>

\* Lines 295-300 and 408: the test of err after a receive, the return of the
\* first error seen, and the return of nil after len(ents) receives.
ReceiveTest ==
    /\ ex.pc = "test"
    /\ ex' = IF ex.err # Nil
             THEN [ex EXCEPT !.pc = "returned", !.result = ex.err]
             ELSE IF ex.i + 1 = Len(ex.arch)
             THEN [ex EXCEPT !.pc = "returned", !.result = Nil, !.i = @ + 1]
             ELSE [ex EXCEPT !.pc = "recv", !.i = @ + 1]
    /\ UNCHANGED <<dbs, env, dr, rd, ret, pos, ev, dir>>

Children == 1..Len(ex.arch)

ExtractNext ==
    \/ ExtractCall
    \/ ReceiveTest
    \/ \E c \in Children : ChildNewFile(c)
    \/ \E c \in Children : ChildMkdir(c)
    \/ \E c \in Children : ChildTestErr(c)
    \/ \E c \in Children : ChildEvalSend(c)
    \/ \E c \in Children : ChildExtract(c)
    \/ \E c \in Children : Receive(c)

ExtractReturned == ex.pc = "returned"

\* The child's lookup or its realExtract call ended with an error.
ChildFailed(c) == ex.ch[c].own # Nil

\* C4: when the extraction of a child fails, the directory's call returns an
\* error, in every interleaving of the sibling tasks.
C4_ChildErrorFailsCall ==
    (ExtractReturned /\ \E c \in Children : ChildFailed(c)) => ex.result # Nil

\* C10: the call does not return before every child has delivered its signal.
C10_ReturnsAfterAllSignals ==
    ExtractReturned => ex.received = Len(ex.arch)

\* C9: no path of the target is created or written by two sibling tasks.
C9_SiblingsWriteDisjointPaths ==
    \A q \in DOMAIN ex.fs : Cardinality(ex.fs[q].writers \ {0}) <= 1

\* The paths task c has created or written.
WrittenBy(c) == {q \in DOMAIN ex.fs : c \in ex.fs[q].writers}

\* C8: with DereferenceSymlink, once the task of a symlink child s with a
\* resolvable target T has extracted it without error, T is at D/s (a file with
\* T's bytes, or a directory holding T's children) and the task has created
\* nothing outside D/s.
C8_DerefUnderOwnName ==
    \A c \in Children :
        LET n  == ex.arch[c]
            T  == GetSymlinkFile(n, ex.arch)
            at == Append(D, n.name)
        IN  (/\ ex.op.deref /\ n.kind = "Sym" /\ T # NoNode
             /\ ex.ch[c].pc \in {"send", "done"} /\ ex.ch[c].own = Nil) =>
                /\ \A q \in WrittenBy(c) : q = at \/ q \in Below(ex.fs, at)
                /\ at \in DOMAIN ex.fs
                /\ T.kind = "Fil" => ex.fs[at].kind = "file" /\ ex.fs[at].from = T.id
                /\ T.kind = "Dir" =>
                      /\ ex.fs[at].kind = "dir"
                      /\ \A k \in 1..Len(T.kids) :
                            /\ Append(at, T.kids[k].name) \in DOMAIN ex.fs
                            /\ ex.fs[Append(at, T.kids[k].name)].from = T.kids[k].id

Launched(c) == c \in Children /\ ex.ch[c].pc # "unborn"

Terminated(c) == c \in Children /\ ex.ch[c].pc = "done"

\* C11: every child task that was launched terminates, also after a sibling has
\* failed and the directory's call has returned that error.
C11_LaunchedChildrenTerminate ==
    \A c \in 1..MaxChildren : Launched(c) ~> Terminated(c)

\* Only directories and regular files, none of which fails to load or to copy.
PlainArchive == \A c \in Children : ex.arch[c].kind \in {"Dir", "Fil"} /\ ex.arch[c].bad = "no"

\* C12: extracting a directory into a target where the folder and the nested
\* sub-directories already exist succeeds when nothing else fails.
C12_ExistingDirsTolerated ==
    (ExtractReturned /\ ex.earlier /\ PlainArchive) => ex.result = Nil

\* The directories this extraction has created (an earlier one's have no writer).
CreatedDirs == {q \in DOMAIN ex.fs : ex.fs[q].kind = "dir" /\ ex.fs[q].writers # {}}

\* C13: every directory the extraction creates, the folder and each nested
\* sub-directory, has the permission bits FolderPerm of the options.
C13_DirsCreatedWithFolderPerm ==
    \A q \in CreatedDirs : ex.fs[q].perm = ex.op.perm

RECURSIVE SumSent(_)
SumSent(n) == IF n = 0 THEN 0 ELSE SumSent(n - 1) + ex.ch[n].sent

\* C18: a child task sends at most one signal, exactly one once it has passed its
\* send, so that no more signals are sent than there are children.
C18_OneSignalPerChild ==
    /\ \A c \in Children :
          /\ ex.ch[c].sent <= 1
          /\ ex.ch[c].pc = "done" => ex.ch[c].sent = 1
    /\ SumSent(Len(ex.arch)) <= Len(ex.arch)
    /\ ex.received = SumSent(Len(ex.arch))

AllSignalled == \A c \in Children : ex.ch[c].pc = "done"

\* Two children have sent their signals, one of them after a failed lookup.
C18_Witness ==
    /\ Len(ex.arch) >= 2 /\ AllSignalled
    /\ \E c \in Children : ex.ch[c].own = "lookup"

\* No child's lookup, sub-directory creation or extraction has failed.
NoChildFailed == \A c \in Children : ex.ch[c].own = Nil /\ ex.ch[c].mk = Nil

\* C20: the call returns, and when no child fails it returns success with every
\* child's signal sent and every child task finished.
C20_AllSuccessReturns ==
    /\ <>ExtractReturned
    /\ [](ExtractReturned /\ NoChildFailed => ex.result = Nil /\ AllSignalled)

\* A call with two or more children, none of which failed, has returned success.
C20_Witness ==
    /\ ExtractReturned /\ Len(ex.arch) >= 2 /\ NoChildFailed
    /\ ex.result = Nil /\ AllSignalled

ReaderIdle == env = None /\ dr = NoReader /\ rd = Idle /\ ret = NoReturn /\ pos = 0 /\ ev = <<>>

DecodeIdle == dbs = NoDecode

DirIdle == dir = [pc |-> "unused"]

ExtractIdle == ex = [pc |-> "unused"]

Init ==
    /\ env \in ReaderEnvs
    /\ dr = NoReader /\ rd = Idle /\ ret = NoReturn /\ pos = 0 /\ ev = <<>>
    /\ DecodeIdle /\ DirIdle /\ ExtractIdle

Next == NewDataReader \/ ReadFast \/ ReadSlow \/ ReadLoop

Spec == Init /\ [][Next]_vars

\* A Read call that is in its loop keeps running.
ReadLiveSpec == Init /\ [][Next]_vars /\ WF_vars(ReadLoop)

DecodeInit == DecodeIdle /\ ReaderIdle /\ DirIdle /\ ExtractIdle

DecodeNext == DecodeBlockSize

DecodeSpec == DecodeInit /\ [][DecodeNext]_vars

DirFullInit == DirInit /\ DecodeIdle /\ ReaderIdle /\ ExtractIdle

DirNext == ReadDir

DirSpec == DirFullInit /\ [][DirNext]_vars

ExtractFullInit == ExtractInit /\ DecodeIdle /\ ReaderIdle /\ DirIdle

ExtractSpec == ExtractFullInit /\ [][ExtractNext]_vars

\* The steps of the call itself, and those of the goroutine of child c (a send is
\* a step of both). The Go scheduler runs every goroutine that can take a step.
CallStep == ExtractCall \/ ReceiveTest \/ \E c \in Children : Receive(c)

ChildStep(c) ==
    /\ c \in Children
    /\ ChildNewFile(c) \/ ChildMkdir(c) \/ ChildTestErr(c) \/ ChildEvalSend(c)
          \/ ChildExtract(c) \/ Receive(c)

ExtractLiveSpec ==
    /\ ExtractFullInit /\ [][ExtractNext]_vars
    /\ WF_vars(CallStep)
    /\ \A c \in 1..MaxChildren : WF_vars(ChildStep(c))

====
